---- MODULE Spec2Model ----
(***************************************************************************)
(* The time-stepping loop of examples/elphf/input.py: five coupled fields  *)
(* (phase, potential, SO4, Cu, e-) are solved one after another inside a   *)
(* fixed number of inner iterations per outer time step.                   *)
(*                                                                         *)
(* A field's value array is represented by its version: the number of      *)
(* solves that have written it (0 is the initial array of lines 73-173).   *)
(* A residual array is a sequence of NumCells integers.                    *)
(***************************************************************************)
EXTENDS Integers, Sequences, FiniteSets, TLC

\* ---------------------------------------------------------------- bounds
\* range(500) of line 287, scaled down
OuterSteps == 2
\* range(100) of line 290, scaled down
InnerIterations == 3
\* number of mesh cells (2000 at lines 58-63), scaled down
NumCells == 1
\* the values one cell of a residual array may take (signed, as L*x - b is)
ResidualEntries == {-2, 1}

\* ------------------------------------------------------- program constants
\* line 285
dt == 1

\* lines 115-127
substitutionals == <<"SO4", "Cu">>
\* lines 131-137
interstitials == <<"e-">>

\* line 288: [phase, potential] + substitutionals + interstitials
UpdateOldFieldsSkipsCu == <<"phase", "potential">> \o <<"SO4">> \o interstitials
UpdateOldFields == <<"phase", "potential">> \o substitutionals \o interstitials

\* line 303: substitutionals + interstitials
ComponentListInterstitialsFirst == interstitials \o substitutionals
ComponentList == substitutionals \o interstitials

Fields == {"phase", "potential", "SO4", "Cu", "e-"}

\* lines 73, 87/93, 147: the hasOld flag each field is constructed with;
\* potential is constructed without it
hasOld == [f \in Fields |-> f # "potential"]

\* CellVariable's default for hasOld (the flag phase and the components set to 1)
NoOld == -1

\* line 273: bcs = (FixedValue(faces = mesh.getFacesLeft(), value = 0),)
bcs == <<[faces |-> "left", value |-> 0]>>
\* the default of solve's boundaryConditions argument
NoBcs == <<>>

\* lines 275-278: CellVariable(mesh = mesh), value 0 in every cell
ZeroArray == [c \in 1..NumCells |-> 0]
ResidualArrays == [1..NumCells -> ResidualEntries]

\* ------------------------------------------------------------ pure helpers
\* Python's max(a, b)
Max2(a, b) == IF a >= b THEN a ELSE b
\* Python's max(array): the largest element, with its sign
MaxOf(arr) == CHOOSE x \in {arr[n] : n \in 1..Len(arr)} :
                 \A n \in 1..Len(arr) : arr[n] <= x

VARIABLES
  main,          \* whether the docstring runs with __name__ == '__main__'
  pc,            \* the statement the script is at
  i,             \* outer loop: index of the current outer step
  j,             \* inner loop: index of the current inner iteration
  k,             \* position in the updateOld pass of line 288
  c,             \* position in the component loop of line 303
  elapsed,       \* line 286
  residual,      \* line 291: the tracked residual
  value,         \* field -> version of its value array
  old,           \* field -> version of its old array, NoOld if it keeps none
  eqResidual,    \* field -> field.equation.residual (<<>> before any solve)
  fieldResidual, \* field -> field.residual
  solves,        \* equation owner -> number of completed solve calls
  reads,         \* equation owner -> what its last solve read
  passedBcs,     \* equation owner -> boundaryConditions of its last solve
  innerDone,     \* inner iterations completed in the current outer step
  failed         \* the field whose solve raised, "none" if none did

vars == <<main, pc, i, j, k, c, elapsed, residual, value, old, eqResidual,
          fieldResidual, solves, reads, passedBcs, innerDone, failed>>

\* state after line 286 (residual is not bound before line 291 first runs;
\* it is given the value that line assigns). The docstring runs either through
\* lines 350-358, with __name__ == '__main__', or as a doctest of the imported
\* module. The name fipy is bound only by line 254, under the __main__ guard:
\* in a doctest line 279 raises NameError and leaves residualViewer unbound.
Init ==
  /\ main \in BOOLEAN
  /\ pc = "outer"
  /\ i = 0
  /\ j = 0
  /\ k = 1
  /\ c = 1
  /\ elapsed = 0
  /\ residual = 0
  /\ value = [f \in Fields |-> 0]
  /\ old = [f \in Fields |-> IF hasOld[f] THEN 0 ELSE NoOld]
  /\ eqResidual = [f \in Fields |-> <<>>]
  /\ fieldResidual = [f \in Fields |-> ZeroArray]
  /\ solves = [f \in Fields |-> 0]
  /\ reads = [f \in Fields |-> [value |-> value, old |-> old]]
  /\ passedBcs = [f \in Fields |-> NoBcs]
  /\ innerDone = 0
  /\ failed = "none"


\* ------------------------------------------------ library calls (fipy)
\* equation.solve(var = var, dt = dt, boundaryConditions = bc): reads the
\* current and old arrays of the fields, writes a new array into var alone and
\* leaves the residual array r of this solve on the equation.
Solve(eq, var, bc, r) ==
  /\ value' = [value EXCEPT ![var] = @ + 1]
  /\ eqResidual' = [eqResidual EXCEPT ![eq] = r]
  /\ solves' = [solves EXCEPT ![eq] = @ + 1]
  /\ reads' = [reads EXCEPT ![eq] = [value |-> value, old |-> old]]
  /\ passedBcs' = [passedBcs EXCEPT ![eq] = bc]

\* field.updateOld(): copies the current array into the old one when the
\* field keeps an old array, and does nothing otherwise
updateOld(f) ==
  old' = [old EXCEPT ![f] = IF hasOld[f] THEN value[f] ELSE @]

\* ------------------------------------------------------- loop conditions
\* line 287: for i in range(500)
OuterContinuesOffByOne == i + 1 < OuterSteps
OuterContinues == i < OuterSteps

\* line 290: for j in range(100); the residual takes no part in it
InnerContinuesWhileResidual == j < InnerIterations /\ (j = 0 \/ residual > 0)
InnerContinues == j < InnerIterations

\* lines 287-314 hold no try/except: an exception raised by a solve leaves
\* both loops, whatever statement would have come next
AfterFailureSkip(next) == next
AfterFailure(next) == "aborted"

\* lines 293, 298, 304: the var each equation's solve is given
PhaseVar == "phase"
PotentialVarIsPhase == "phase"
PotentialVar == "potential"
ComponentVar(Cj) == Cj

\* line 298: boundaryConditions = bcs; lines 293 and 304 pass none
PotentialBcsFirstIterationOnly == IF j = 0 THEN bcs ELSE NoBcs
PotentialBcs == bcs

\* lines 295, 300, 308: residual = max(max(eq.residual), residual)
Track(r, res) == Max2(MaxOf(r), res)

\* lines 296, 301, 309: the equation whose residual is copied into
\* field.residual
ResidualSourcePhase(f) == "phase"
ResidualSource(f) == f

\* ---------------------------------------------------------------- actions
\* line 287, loop entered
OuterBegin ==
  /\ pc = "outer"
  /\ OuterContinues
  /\ pc' = "updateOld"
  /\ k' = 1
  /\ UNCHANGED <<main, i, j, c, elapsed, residual, value, old, eqResidual,
                 fieldResidual, solves, reads, passedBcs, innerDone, failed>>

\* line 287, range exhausted: the loop ends
OuterEnd ==
  /\ pc = "outer"
  /\ ~OuterContinues
  /\ pc' = "done"
  /\ UNCHANGED <<main, i, j, k, c, elapsed, residual, value, old, eqResidual,
                 fieldResidual, solves, reads, passedBcs, innerDone, failed>>

\* lines 288-289, one field of the pass; after the last, line 290 starts
UpdateOldStep ==
  /\ pc = "updateOld"
  /\ k <= Len(UpdateOldFields)
  /\ updateOld(UpdateOldFields[k])
  /\ k' = k + 1
  /\ UNCHANGED <<main, pc, i, j, c, elapsed, residual, value, eqResidual,
                 fieldResidual, solves, reads, passedBcs, innerDone, failed>>

UpdateOldEnd ==
  /\ pc = "updateOld"
  /\ k > Len(UpdateOldFields)
  /\ pc' = "inner"
  /\ j' = 0
  /\ innerDone' = 0
  /\ UNCHANGED <<main, i, k, c, elapsed, residual, value, old, eqResidual,
                 fieldResidual, solves, reads, passedBcs, failed>>

\* lines 290-291
InnerBegin ==
  /\ pc = "inner"
  /\ InnerContinues
  /\ residual' = 0
  /\ pc' = "phase"
  /\ UNCHANGED <<main, i, j, k, c, elapsed, value, old, eqResidual,
                 fieldResidual, solves, reads, passedBcs, innerDone, failed>>

\* line 290, range exhausted
InnerEnd ==
  /\ pc = "inner"
  /\ ~InnerContinues
  /\ pc' = "advance"
  /\ UNCHANGED <<main, i, j, k, c, elapsed, residual, value, old, eqResidual,
                 fieldResidual, solves, reads, passedBcs, innerDone, failed>>

\* lines 293-296
PhaseSolve ==
  /\ pc = "phase"
  /\ \E r \in ResidualArrays :
       /\ Solve("phase", PhaseVar, NoBcs, r)
       /\ residual' = Track(r, residual)
  /\ fieldResidual' =
       [fieldResidual EXCEPT !["phase"] = eqResidual'[ResidualSource("phase")]]
  /\ pc' = "potential"
  /\ UNCHANGED <<main, i, j, k, c, elapsed, old, innerDone, failed>>

\* line 293 raises
PhaseSolveFails ==
  /\ pc = "phase"
  /\ failed' = "phase"
  /\ pc' = AfterFailure("potential")
  /\ UNCHANGED <<main, i, j, k, c, elapsed, residual, value, old, eqResidual,
                 fieldResidual, solves, reads, passedBcs, innerDone>>

\* lines 298-301
PotentialSolve ==
  /\ pc = "potential"
  /\ \E r \in ResidualArrays :
       /\ Solve("potential", PotentialVar, PotentialBcs, r)
       /\ residual' = Track(r, residual)
  /\ fieldResidual' =
       [fieldResidual EXCEPT
          !["potential"] = eqResidual'[ResidualSource("potential")]]
  /\ pc' = "components"
  /\ c' = 1
  /\ UNCHANGED <<main, i, j, k, elapsed, old, innerDone, failed>>

\* line 298 raises
PotentialSolveFails ==
  /\ pc = "potential"
  /\ failed' = "potential"
  /\ pc' = AfterFailure("components")
  /\ c' = 1
  /\ UNCHANGED <<main, i, j, k, elapsed, residual, value, old, eqResidual,
                 fieldResidual, solves, reads, passedBcs, innerDone>>

\* lines 303-309, one component
ComponentSolve ==
  /\ pc = "components"
  /\ c <= Len(ComponentList)
  /\ LET Cj == ComponentList[c] IN
       /\ \E r \in ResidualArrays :
            /\ Solve(Cj, ComponentVar(Cj), NoBcs, r)
            /\ residual' = Track(r, residual)
       /\ fieldResidual' =
            [fieldResidual EXCEPT ![Cj] = eqResidual'[ResidualSource(Cj)]]
  /\ c' = c + 1
  /\ UNCHANGED <<main, pc, i, j, k, elapsed, old, innerDone, failed>>

\* line 304 raises
ComponentSolveFails ==
  /\ pc = "components"
  /\ c <= Len(ComponentList)
  /\ failed' = ComponentList[c]
  /\ pc' = AfterFailure("components")
  /\ c' = IF pc' = "aborted" THEN c ELSE c + 1
  /\ UNCHANGED <<main, i, j, k, elapsed, residual, value, old, eqResidual,
                 fieldResidual, solves, reads, passedBcs, innerDone>>

\* line 303, list exhausted
ComponentsEnd ==
  /\ pc = "components"
  /\ c > Len(ComponentList)
  /\ pc' = "plot"
  /\ UNCHANGED <<main, i, j, k, c, elapsed, residual, value, old, eqResidual,
                 fieldResidual, solves, reads, passedBcs, innerDone, failed>>

\* line 312 with residualViewer bound: residualViewer.plot() only displays;
\* the body of the inner loop ends and the iterator moves on
ResidualViewerPlot ==
  /\ pc = "plot"
  /\ main
  /\ j' = j + 1
  /\ innerDone' = innerDone + 1
  /\ pc' = "inner"
  /\ UNCHANGED <<main, i, k, c, elapsed, residual, value, old, eqResidual,
                 fieldResidual, solves, reads, passedBcs, failed>>

\* line 312 with residualViewer unbound: NameError, which nothing catches;
\* both loops are left and no solve has failed
ResidualViewerUnbound ==
  /\ pc = "plot"
  /\ ~main
  /\ pc' = "aborted"
  /\ UNCHANGED <<main, i, j, k, c, elapsed, residual, value, old, eqResidual,
                 fieldResidual, solves, reads, passedBcs, innerDone, failed>>

\* line 314 (lines 315-319 only display); the outer iterator moves on
Advance ==
  /\ pc = "advance"
  /\ elapsed' = elapsed + dt
  /\ i' = i + 1
  /\ pc' = "outer"
  /\ UNCHANGED <<main, j, k, c, residual, value, old, eqResidual,
                 fieldResidual, solves, reads, passedBcs, innerDone, failed>>

Next ==
  \/ OuterBegin
  \/ OuterEnd
  \/ UpdateOldStep
  \/ UpdateOldEnd
  \/ InnerBegin
  \/ InnerEnd
  \/ PhaseSolve
  \/ PhaseSolveFails
  \/ PotentialSolve
  \/ PotentialSolveFails
  \/ ComponentSolve
  \/ ComponentSolveFails
  \/ ComponentsEnd
  \/ ResidualViewerPlot
  \/ ResidualViewerUnbound
  \/ Advance

Spec == Init /\ [][Next]_vars

\* ------------------------------------------------------------- properties
\* the order the specification states
ClaimedOrder == <<"phase", "potential", "SO4", "Cu", "e-">>
Pos(f) == CHOOSE n \in 1..Len(ClaimedOrder) : ClaimedOrder[n] = f
WithOld == {"phase", "SO4", "Cu", "e-"}

\* inner iterations completed since the start of the run
Completed ==
  IF pc \in {"outer", "updateOld", "done"}
    THEN i * InnerIterations
    ELSE i * InnerIterations + j
\* the version every array has when outer step i begins
StepStart == i * InnerIterations
InStep == pc \in {"inner", "phase", "potential", "components", "plot",
                  "advance", "aborted"}
InBody == pc \in {"phase", "potential", "components", "plot"}

Abs(x) == IF x < 0 THEN -x ELSE x
MaxAbsOf(arr) == CHOOSE x \in {Abs(arr[n]) : n \in 1..Len(arr)} :
                    \A n \in 1..Len(arr) : Abs(arr[n]) <= x

\* C1: in every inner iteration the solves run in the order phase, potential,
\* SO4, Cu, e-: the fields already solved in the current iteration are a
\* prefix of that order, and the n-th solve of a field read version n (this
\* iteration's) of every earlier field and version n-1 (the one the previous
\* iteration or the previous outer step left) of itself and every later field.
C1_SolveOrder ==
  \A f \in Fields :
    /\ solves[f] \in {Completed, Completed + 1}
    /\ solves[f] = Completed + 1 =>
         \A g \in Fields : Pos(g) < Pos(f) => solves[g] = Completed + 1
    /\ solves[f] > 0 =>
         \A g \in Fields :
           reads[f].value[g] =
             IF Pos(g) < Pos(f) THEN solves[f] ELSE solves[f] - 1

C1_Witness ==
  /\ pc = "plot"
  /\ i = 1
  /\ j = 0
  /\ reads["e-"].value["phase"] = InnerIterations + 1
  /\ reads["e-"].value["Cu"] = InnerIterations + 1
  /\ reads["phase"].value["e-"] = InnerIterations
  /\ reads["SO4"].value["Cu"] = InnerIterations

\* C2 as stated: during an outer step every one of the five fields has, as its
\* old value, the value it had when the step began, and every solve of the
\* step read that snapshot.
C2_Original ==
  InStep =>
    /\ \A f \in Fields : old[f] = StepStart
    /\ \A f \in Fields : solves[f] > StepStart =>
         \A g \in Fields : reads[f].old[g] = StepStart

\* C2 amended: that holds of the four fields that keep an old value (phase,
\* SO4, Cu, e-); potential keeps none, before, during and after every step.
C2_OldSnapshot ==
  /\ old["potential"] = NoOld
  /\ InStep =>
       /\ \A f \in WithOld : old[f] = StepStart
       /\ \A f \in Fields : solves[f] > StepStart =>
            /\ \A g \in WithOld : reads[f].old[g] = StepStart
            /\ reads[f].old["potential"] = NoOld

C2_Witness ==
  /\ pc = "plot"
  /\ i = 1
  /\ j = InnerIterations - 1
  /\ old["Cu"] = InnerIterations
  /\ value["Cu"] = 2 * InnerIterations
  /\ reads["e-"].old["Cu"] = InnerIterations
  /\ old["potential"] = NoOld

\* C3: an outer step runs exactly InnerIterations inner iterations, whatever
\* the tracked residual is, and only then adds dt to elapsed, once: elapsed is
\* dt times the number of completed outer steps.
C3_FixedInnerCount ==
  /\ elapsed = i * dt
  /\ InBody => innerDone = j /\ j < InnerIterations
  /\ pc = "inner" => innerDone = j /\ j <= InnerIterations
  /\ pc = "advance" => innerDone = InnerIterations
  /\ pc = "outer" /\ i > 0 => innerDone = InnerIterations
  /\ pc = "done" => i = OuterSteps

C3_Witness ==
  /\ pc = "outer"
  /\ i = 2
  /\ elapsed = 2 * dt
  /\ innerDone = InnerIterations
  /\ residual = 0

\* C4 as stated: a run that has ended without a failed solve has made exactly
\* OuterSteps outer steps and has solved each of the five fields exactly
\* OuterSteps * InnerIterations times.
C4_RunsToEnd ==
  (failed = "none" /\ ~ENABLED Next) =>
    /\ pc = "done"
    /\ i = OuterSteps
    /\ elapsed = OuterSteps * dt
    /\ \A f \in Fields : solves[f] = OuterSteps * InnerIterations

\* C5: once a solve has failed the run is over at once: nothing more can
\* happen, the failed solve and the solves after it in that iteration have not
\* run (again), the solves before it have run once, and elapsed holds only
\* the outer steps completed before the failure.
C5_FailurePropagates ==
  failed # "none" =>
       /\ pc = "aborted"
       /\ ~ENABLED Next
       /\ i < OuterSteps /\ j < InnerIterations
       /\ elapsed = i * dt
       /\ \A g \in Fields :
            /\ Pos(g) < Pos(failed) =>
                 solves[g] = Completed + 1 /\ value[g] = Completed + 1
            /\ Pos(g) >= Pos(failed) =>
                 solves[g] = Completed /\ value[g] = Completed

C5_Witness ==
  /\ pc = "aborted"
  /\ failed = "Cu"
  /\ i = 1
  /\ j = 1
  /\ elapsed = dt
  /\ solves["SO4"] = solves["Cu"] + 1

\* C6: a step that changes a field's value array is a solve of that field's
\* own equation and changes no other field's array; so every array has been
\* written once per solve of its own equation, once per inner iteration.
C6_Frame ==
  /\ [](\A f \in Fields :
          value[f] = solves[f] /\ value[f] \in {Completed, Completed + 1})
  /\ [][\A f \in Fields :
          value'[f] # value[f] =>
            /\ solves'[f] = solves[f] + 1
            /\ \A g \in Fields \ {f} : value'[g] = value[g]]_vars

C6_Witness ==
  /\ pc = "components"
  /\ c = 2
  /\ j = 1
  /\ value = [f \in Fields |->
                IF f \in {"phase", "potential", "SO4"} THEN 2 ELSE 1]

\* C7: every solve of the potential equation is given the one boundary
\* condition, value 0 on the left faces; the other solves are given none.
C7_BoundaryCondition ==
  /\ solves["potential"] > 0 =>
       passedBcs["potential"] = <<[faces |-> "left", value |-> 0]>>
  /\ \A f \in Fields \ {"potential"} : passedBcs[f] = <<>>

C7_Witness ==
  /\ pc = "components"
  /\ i = 1
  /\ j = InnerIterations - 1
  /\ passedBcs["potential"] = <<[faces |-> "left", value |-> 0]>>

\* C8 as stated: at the end of an inner iteration the tracked residual is the
\* largest, over the five fields, of the largest absolute residual of the
\* field's solve in that iteration.
C8_MaxAbsResidual ==
  pc = "plot" =>
    \E f \in Fields :
      /\ residual = MaxAbsOf(eqResidual[f])
      /\ \A g \in Fields : MaxAbsOf(eqResidual[g]) <= residual

\* C9: the residual recorded for a field is the residual its own equation's
\* latest solve produced (and the zero array before its first solve).
C9_RecordedResidual ==
  \A f \in Fields :
    fieldResidual[f] = IF solves[f] > 0 THEN eqResidual[f] ELSE ZeroArray

C9_Witness ==
  /\ pc = "plot"
  /\ j = 1
  /\ eqResidual["phase"] # eqResidual["Cu"]
  /\ eqResidual["potential"] # eqResidual["e-"]
  /\ fieldResidual["Cu"] = eqResidual["Cu"]
  /\ fieldResidual["e-"] = eqResidual["e-"]

====
